---- MODULE Spec2Model ----
(***************************************************************************)
(* WhatsApp expense tracker (src/app.py): the text-to-expense parser, the  *)
(* categorization fallback, the ledger append, the summary engine and the  *)
(* webhook handler that routes an inbound message between them.            *)
(*                                                                         *)
(* Text is a sequence of one-character strings.  A parsed float is a       *)
(* decimal [m, e] standing for m / 10^e, kept normalised (no trailing zero *)
(* in the fraction), so that numeric equality is structural equality.      *)
(***************************************************************************)
EXTENDS Integers, Sequences, FiniteSets, TLC

VARIABLES
    text,       \* parser run: the argument given to parse_expense
    parsed,     \* parser run: what parse_expense returned (or that it raised)
    ppc,        \* parser run: "ready" before the call, "done" after it
    rows,       \* summary run: what worksheet.get_all_records() holds
    period,     \* summary run: the argument of get_summary
    today,      \* summary run: datetime.now().date() as [y, m, d]
    filtered,   \* summary run: get_summary's list `filtered` after its first loop
    summary,    \* summary run: what get_summary returned
    spc,        \* summary run: "ready" before the call, then "done", or
                \*              "read_failed" when the worksheet could not be read
    ledger,     \* webhook run: the rows appended to the worksheet so far
    now,        \* webhook run: the wall clock, [y, m, d, s]
    last,       \* webhook run: the outcome of the last handled message
    handled     \* webhook run: number of messages handled

parseVars   == <<text, parsed, ppc>>
summaryVars == <<rows, period, today, filtered, summary, spc>>
webhookVars == <<ledger, now, last, handled>>
vars        == <<text, parsed, ppc, rows, period, today, filtered, summary, spc,
                 ledger, now, last, handled>>

(***************************************************************************)
(* Bounds of the model.                                                    *)
(***************************************************************************)
MaxLen == 5          \* longest text given to parse_expense
MaxRows == 2         \* most rows of the worksheet read by get_summary
MaxMsgs == 2         \* most inbound messages handled in one run
MaxTicks == 1        \* most seconds the clock moves between two reads

(***************************************************************************)
(* Characters and text.                                                    *)
(***************************************************************************)
Min(S) == CHOOSE x \in S : \A y \in S : x <= y
Max(S) == CHOOSE x \in S : \A y \in S : x >= y

DigitChars == {"0", "1", "2", "3", "4", "5", "6", "7", "8", "9"}

DigitVal(c) ==
    CASE c = "0" -> 0 [] c = "1" -> 1 [] c = "2" -> 2 [] c = "3" -> 3
      [] c = "4" -> 4 [] c = "5" -> 5 [] c = "6" -> 6 [] c = "7" -> 7
      [] c = "8" -> 8 [] c = "9" -> 9

\* \s of the regular expressions and the characters str.strip() removes
IsSpace(c) == c \in {" ", "\n", "\t"}

\* the class [\d] : the mutant of IsNumChar that forgets the decimal point
IsNumCharDigitsOnly(c) == c \in DigitChars

\* the class [\d.] of both patterns
IsNumChar(c) == c \in DigitChars \cup {"."}

\* the class . (no DOTALL flag): anything but a newline
IsDot(c) == c # "\n"

\* str.strip()
strip(s) ==
    LET keep == {i \in 1..Len(s) : ~IsSpace(s[i])}
    IN  IF keep = {} THEN <<>> ELSE SubSeq(s, Min(keep), Max(keep))

\* str.lower() on the capital letters the model's texts use
LowerChar(c) ==
    CASE c = "A" -> "a" [] c = "B" -> "b" [] c = "F" -> "f" [] c = "H" -> "h"
      [] c = "O" -> "o" [] c = "X" -> "x" [] OTHER -> c

lower(s) == [i \in 1..Len(s) |-> LowerChar(s[i])]

(***************************************************************************)
(* float(): Python's conversion of a string to a float, on the characters  *)
(* of the model (digits, ".", "-", letters, whitespace): surrounding       *)
(* whitespace is dropped, one leading sign is allowed, and what is left    *)
(* must be digits with at most one "." and at least one digit.  The result *)
(* is [ok, m, e]: ok = FALSE stands for ValueError.                        *)
(***************************************************************************)
RECURSIVE Pow10(_)
Pow10(n) == IF n = 0 THEN 1 ELSE 10 * Pow10(n - 1)

RECURSIVE IntOfDigits(_)
IntOfDigits(s) ==
    IF s = <<>> THEN 0
    ELSE 10 * IntOfDigits(SubSeq(s, 1, Len(s) - 1)) + DigitVal(s[Len(s)])

RECURSIVE Normalise(_, _)
Normalise(m, e) ==
    IF e > 0 /\ m % 10 = 0 THEN Normalise(m \div 10, e - 1)
    ELSE [m |-> m, e |-> e]

Zero == [m |-> 0, e |-> 0]

float(s) ==
    LET t      == strip(s)
        neg    == t # <<>> /\ t[1] = "-"
        body   == IF neg THEN SubSeq(t, 2, Len(t)) ELSE t
        dots   == {i \in 1..Len(body) : body[i] = "."}
        digits == SelectSeq(body, LAMBDA c : c \in DigitChars)
        frac   == IF dots = {} THEN 0 ELSE Len(body) - Min(dots)
        valid  == /\ \A i \in 1..Len(body) : body[i] \in DigitChars \cup {"."}
                  /\ Cardinality(dots) <= 1
                  /\ digits # <<>>
        mag    == Normalise(IntOfDigits(digits), frac)
    IN  IF ~valid THEN [ok |-> FALSE, m |-> 0, e |-> 0]
        ELSE [ok |-> TRUE, m |-> IF neg THEN 0 - mag.m ELSE mag.m, e |-> mag.e]

\* float + float, exact on decimals
AddVal(a, b) ==
    LET e == IF a.e >= b.e THEN a.e ELSE b.e
    IN  Normalise(a.m * Pow10(e - a.e) + b.m * Pow10(e - b.e), e)

(***************************************************************************)
(* The two regular expressions of parse_expense.                           *)
(***************************************************************************)
\* membership of a character in one of the classes the patterns repeat
InClass(cls, c) ==
    CASE cls = "\\s" -> IsSpace(c)
      [] cls = "[\\d.]" -> IsNumChar(c)
      [] cls = "." -> IsDot(c)

\* the last index p >= from - 1 with s[from..p] inside the class: the end of
\* a greedy repetition started at from
RunEnd(s, from, cls) ==
    Max({from - 1} \cup
        {p \in from..Len(s) : \A q \in from..p : InClass(cls, s[q])})

\* s[k+1..] matches \s+([\d.]+)\s*$ ; the two classes are disjoint, so the
\* greedy repetitions never give a character back
TrailTail(s, k) ==
    LET j == RunEnd(s, k + 1, "\\s")
        m == RunEnd(s, j + 1, "[\\d.]")
        e == RunEnd(s, m + 1, "\\s")
    IN  [ok |-> j >= k + 1 /\ m >= j + 1 /\ e = Len(s), from |-> j + 1, to |-> m]

\* re.search(r'(.+?)\s+([\d.]+)\s*$', s): the leftmost start, and from it
\* the shortest group 1
TrailingMatch(s) ==
    LET ends(i) == {k \in i..Len(s) :
                      /\ \A q \in i..k : IsDot(s[q])
                      /\ TrailTail(s, k).ok}
        starts  == {i \in 1..Len(s) : ends(i) # {}}
    IN  IF starts = {} THEN [ok |-> FALSE, g1 |-> <<>>, g2 |-> <<>>]
        ELSE LET i == Min(starts)
                 k == Min(ends(i))
                 t == TrailTail(s, k)
             IN  [ok |-> TRUE, g1 |-> SubSeq(s, i, k),
                  g2 |-> SubSeq(s, t.from, t.to)]

\* re.search(r'^([\d.]+)\s+(.+)', s): anchored at the start; \s+ takes the
\* longest run that still leaves (.+) a character of the line
LeadingMatch(s) ==
    LET m    == RunEnd(s, 1, "[\\d.]")
        w    == RunEnd(s, m + 1, "\\s")
        cuts == {j \in (m + 1)..w : j + 1 <= Len(s) /\ IsDot(s[j + 1])}
    IN  IF m < 1 \/ cuts = {} THEN [ok |-> FALSE, g1 |-> <<>>, g2 |-> <<>>]
        ELSE LET j == Max(cuts)
             IN  [ok |-> TRUE, g1 |-> SubSeq(s, 1, m),
                  g2 |-> SubSeq(s, j + 1, RunEnd(s, j + 1, "."))]

(***************************************************************************)
(* parse_expense: [kind, description, amount] with kind "Parsed" for a     *)
(* returned pair, "Failed" for (None, None) and "Raised" for the           *)
(* ValueError of float() leaving the function.                             *)
(***************************************************************************)
Failed == [kind |-> "Failed", description |-> <<>>, amount |-> Zero]
Raised == [kind |-> "Raised", description |-> <<>>, amount |-> Zero]
Parsed(d, a) == [kind |-> "Parsed", description |-> d, amount |-> a]

parse_expense(t) ==
    LET s  == strip(t)
        m1 == TrailingMatch(s)
        m2 == LeadingMatch(s)
    IN  IF m1.ok
        THEN LET a == float(m1.g2)
             IN  IF a.ok THEN Parsed(strip(m1.g1), [m |-> a.m, e |-> a.e])
                 ELSE Raised
        ELSE IF m2.ok
        THEN LET a == float(m2.g1)
             IN  IF a.ok THEN Parsed(strip(m2.g2), [m |-> a.m, e |-> a.e])
                 ELSE Raised
        ELSE Failed

(***************************************************************************)
(* Parser run: every text over a small alphabet, then one call.            *)
(***************************************************************************)
ParseAlphabet == {"a", "5", "0", ".", " ", "\n"}

RECURSIVE TextsUpTo(_, _)
TextsUpTo(A, n) ==
    IF n = 0 THEN {<<>>}
    ELSE LET shorter == TextsUpTo(A, n - 1)
         IN  shorter \cup {Append(s, c) : s \in {x \in shorter : Len(x) = n - 1}, c \in A}

IdleParse   == text = <<>> /\ parsed = Failed /\ ppc = "idle"
IdleSummary == rows = <<>> /\ period = "today" /\ today = [y |-> 1, m |-> 1, d |-> 1]
               /\ filtered = <<>>
               /\ summary = [results |-> <<>>, total |-> Zero] /\ spc = "idle"
IdleWebhook == ledger = <<>> /\ now = [y |-> 1, m |-> 1, d |-> 1, s |-> 0]
               /\ last = [kind |-> "idle"] /\ handled = 0

InitParse ==
    /\ text \in TextsUpTo(ParseAlphabet, MaxLen)
    /\ parsed = Failed
    /\ ppc = "ready"
    /\ IdleSummary /\ IdleWebhook

Parse ==
    /\ ppc = "ready"
    /\ parsed' = parse_expense(text)
    /\ ppc' = "done"
    /\ UNCHANGED <<text, summaryVars, webhookVars>>

NextParse == Parse

SpecParse == InitParse /\ [][NextParse]_vars

(***************************************************************************)
(* Dates.  A Date cell of the worksheet is [fmt, y, m, d]: fmt says the    *)
(* text has the shape of '%Y-%m-%d' (digits, "-", digits, "-", digits),    *)
(* and y, m, d are the numbers it then spells.  strptime raises ValueError *)
(* on any other text and on numbers that are no calendar date.             *)
(***************************************************************************)
IsLeap(y) == y % 4 = 0 /\ (y % 100 # 0 \/ y % 400 = 0)

DaysInMonth(y, m) ==
    CASE m \in {1, 3, 5, 7, 8, 10, 12} -> 31
      [] m \in {4, 6, 9, 11} -> 30
      [] m = 2 -> IF IsLeap(y) THEN 29 ELSE 28

RECURSIVE DaysBeforeMonth(_, _)
DaysBeforeMonth(y, m) ==
    IF m = 1 THEN 0 ELSE DaysBeforeMonth(y, m - 1) + DaysInMonth(y, m - 1)

DaysBeforeYear(y) ==
    (y - 1) * 365 + ((y - 1) \div 4) - ((y - 1) \div 100) + ((y - 1) \div 400)

\* date.toordinal(), the number that date subtraction works on
toordinal(y, m, d) == DaysBeforeYear(y) + DaysBeforeMonth(y, m) + d

\* datetime.strptime(cell, '%Y-%m-%d').date(): [ok, ord], ok = FALSE for
\* the ValueError
strptime(c) ==
    IF /\ c.fmt
       /\ c.y >= 1
       /\ c.m \in 1..12
       /\ c.d >= 1
       /\ c.d <= DaysInMonth(c.y, c.m)
    THEN [ok |-> TRUE, ord |-> toordinal(c.y, c.m, c.d)]
    ELSE [ok |-> FALSE, ord |-> 0]

DateCell(y, m, d) == [fmt |-> TRUE, y |-> y, m |-> m, d |-> d]
JunkDate == [fmt |-> FALSE, y |-> 0, m |-> 0, d |-> 0]

(***************************************************************************)
(* An Amount cell is [num, val, str]: get_all_records hands a cell back as *)
(* a number (num, val) when the worksheet stored one, and as text (str)    *)
(* otherwise.  float() of a number is that number.                         *)
(***************************************************************************)
NumCell(v) == [num |-> TRUE, val |-> v, str |-> <<>>]
StrCell(s) == [num |-> FALSE, val |-> Zero, str |-> s]

float_cell(c) ==
    IF c.num THEN [ok |-> TRUE, m |-> c.val.m, e |-> c.val.e] ELSE float(c.str)

(***************************************************************************)
(* get_summary.                                                            *)
(***************************************************************************)
WeekDays == 7
MonthDays == 30

\* mutant of InWindow: week and month count strictly fewer days
InWindowStrict(p, t, r) ==
    \/ p = "today" /\ r = t
    \/ p = "week" /\ t - r < WeekDays
    \/ p = "month" /\ t - r < MonthDays

\* the if / elif chain of the first loop, on ordinals t (today) and r (row)
InWindow(p, t, r) ==
    \/ p = "today" /\ r = t
    \/ p = "week" /\ t - r <= WeekDays
    \/ p = "month" /\ t - r <= MonthDays

\* first loop: the rows whose date parses and lies in the window
Filtered(records, p, t) ==
    SelectSeq(records,
              LAMBDA r : LET rd == strptime(r.Date)
                         IN  rd.ok /\ InWindow(p, toordinal(t.y, t.m, t.d), rd.ord))

\* category_totals[category] += amount, on a dict kept as the sequence of
\* its (key, value) pairs in insertion order
AddTo(totals, cat, amt) ==
    IF \E i \in 1..Len(totals) : totals[i][1] = cat
    THEN [i \in 1..Len(totals) |->
            IF totals[i][1] = cat THEN <<cat, AddVal(totals[i][2], amt)>>
            ELSE totals[i]]
    ELSE Append(totals, <<cat, amt>>)

\* the body of the second loop for a row of category cat and amount a
AddRow(acc, cat, a) ==
    [results |-> AddTo(acc.results, cat, a), total |-> AddVal(acc.total, a)]

\* one pass of the second loop on row r, a being float(r['Amount']): a row
\* whose amount fails to parse leaves the totals as they are
Step(acc, r, a) ==
    IF a.ok THEN AddRow(acc, r.Category, [m |-> a.m, e |-> a.e]) ELSE acc

\* mutant of Accumulate: a row whose amount fails to parse ends the loop
RECURSIVE AccumulateAbort(_, _, _)
AccumulateAbort(f, acc, i) ==
    IF i > Len(f) THEN acc
    ELSE IF ~float_cell(f[i].Amount).ok THEN acc
    ELSE AccumulateAbort(f, Step(acc, f[i], float_cell(f[i].Amount)), i + 1)

\* the pass of the second loop with the key normalised (lower-cased) first
StepLower(acc, r, a) ==
    IF a.ok THEN AddRow(acc, lower(r.Category), [m |-> a.m, e |-> a.e]) ELSE acc

\* mutant of Accumulate: the category key is lower-cased
RECURSIVE AccumulateLower(_, _, _)
AccumulateLower(f, acc, i) ==
    IF i > Len(f) THEN acc
    ELSE AccumulateLower(f, StepLower(acc, f[i], float_cell(f[i].Amount)), i + 1)

\* second loop, from row i on
RECURSIVE Accumulate(_, _, _)
Accumulate(f, acc, i) ==
    IF i > Len(f) THEN acc
    ELSE Accumulate(f, Step(acc, f[i], float_cell(f[i].Amount)), i + 1)

EmptySummary == [results |-> <<>>, total |-> Zero]

\* get_summary(period) with the worksheet holding `records` and the clock
\* showing date t; readOk = FALSE when there is no worksheet or
\* get_all_records raises
get_summary(records, p, t, readOk) ==
    IF ~readOk THEN EmptySummary
    ELSE Accumulate(Filtered(records, p, t), EmptySummary, 1)

(***************************************************************************)
(* Summary run: every worksheet of up to MaxRows rows from a pool, every   *)
(* period, then one call, with the read succeeding or failing.             *)
(***************************************************************************)
Food  == <<"F", "o", "o", "d">>
food  == <<"f", "o", "o", "d">>

Periods == {"today", "week", "month"}

SummaryToday == [y |-> 2024, m |-> 3, d |-> 7]

DatePool ==
    { DateCell(2024, 3, 7),      \* today
      DateCell(2024, 2, 29),     \* 7 days before
      DateCell(2024, 2, 28),     \* 8 days before
      DateCell(2024, 2, 6),      \* 30 days before
      DateCell(2024, 2, 5),      \* 31 days before
      DateCell(2024, 3, 8),      \* tomorrow
      DateCell(2024, 2, 30),     \* the right shape, but no calendar date
      JunkDate }

AmountPool ==
    { StrCell(<<"1", "0">>), StrCell(<<"2", ".", "5">>), StrCell(<<"a", "b", "c">>) }

RowPool ==
    [Date : DatePool, Amount : AmountPool, Category : {Food, food}]

InitSummary ==
    /\ rows \in UNION {[1..n -> RowPool] : n \in 0..MaxRows}
    /\ period \in Periods
    /\ today = SummaryToday
    /\ filtered = <<>>
    /\ summary = EmptySummary
    /\ spc = "ready"
    /\ IdleParse /\ IdleWebhook

Summarize ==
    /\ spc = "ready"
    /\ filtered' = Filtered(rows, period, today)
    /\ summary' = get_summary(rows, period, today, TRUE)
    /\ spc' = "done"
    /\ UNCHANGED <<rows, period, today, parseVars, webhookVars>>

SummarizeReadFails ==
    /\ spc = "ready"
    /\ filtered' = <<>>
    /\ summary' = get_summary(rows, period, today, FALSE)
    /\ spc' = "read_failed"
    /\ UNCHANGED <<rows, period, today, parseVars, webhookVars>>

NextSummary == Summarize \/ SummarizeReadFails

SpecSummary == InitSummary /\ [][NextSummary]_vars

(***************************************************************************)
(* The clock: datetime.now() as [y, m, d, s], s the second of the day.     *)
(***************************************************************************)
Tick(c) ==
    IF c.s < 86399 THEN [c EXCEPT !.s = c.s + 1]
    ELSE IF c.d < DaysInMonth(c.y, c.m) THEN [c EXCEPT !.d = c.d + 1, !.s = 0]
    ELSE IF c.m < 12 THEN [c EXCEPT !.m = c.m + 1, !.d = 1, !.s = 0]
    ELSE [y |-> c.y + 1, m |-> 1, d |-> 1, s |-> 0]

RECURSIVE ClockAfter(_, _)
ClockAfter(c, n) == IF n = 0 THEN c ELSE ClockAfter(Tick(c), n - 1)

\* strftime('%Y-%m-%d') as the Date cell the worksheet then holds
strftime_date(c) == DateCell(c.y, c.m, c.d)

(***************************************************************************)
(* categorize_expense.  The classifier's answer is [raised, text]: raised  *)
(* for any exception of generate_content or of response.text (timeout,     *)
(* blocked answer), text for what response.text holds otherwise.           *)
(***************************************************************************)
Other == <<"O", "t", "h", "e", "r">>

categorize_expense(cls) ==
    IF cls.raised THEN Other ELSE strip(cls.text)

(***************************************************************************)
(* save_expense.  sheet is what the worksheet does on this call: "ok",     *)
(* "no_sheet" (get_or_create_sheet returns None or raises) or              *)
(* "append_raises".  The clock is read twice: at d for the date, at ts for *)
(* the timestamp.  The result says whether True was returned, what the     *)
(* worksheet holds afterwards and how many append_row calls were made.     *)
(***************************************************************************)
Record(description, amount, category, d, ts) ==
    [Date |-> strftime_date(d), Description |-> description,
     Amount |-> NumCell(amount), Category |-> category, Timestamp |-> ts]

\* mutant of save_expense: a failed append_row is tried once more
save_expense_retry(led, description, amount, category, sheet, d, ts) ==
    CASE sheet = "ok" ->
           [success |-> TRUE, attempts |-> 1,
            ledger |-> Append(led, Record(description, amount, category, d, ts))]
      [] sheet = "no_sheet" ->
           [success |-> FALSE, attempts |-> 0, ledger |-> led]
      [] sheet = "append_raises" ->
           [success |-> TRUE, attempts |-> 2,
            ledger |-> Append(led, Record(description, amount, category, d, ts))]

save_expense(led, description, amount, category, sheet, d, ts) ==
    CASE sheet = "ok" ->
           [success |-> TRUE, attempts |-> 1,
            ledger |-> Append(led, Record(description, amount, category, d, ts))]
      [] sheet = "no_sheet" ->
           [success |-> FALSE, attempts |-> 0, ledger |-> led]
      [] sheet = "append_raises" ->
           [success |-> FALSE, attempts |-> 1, ledger |-> led]

(***************************************************************************)
(* webhook.  The outcome of one message is kept in `last`:                 *)
(*   kind        the reply template sent, or "fault" when an exception     *)
(*               left the handler and no reply was built;                  *)
(*   body, cls, sheet   the inputs: message body, classifier answer,       *)
(*               worksheet behaviour;                                      *)
(*   description, amount, category, results, total   the data templated    *)
(*               into the reply;                                           *)
(*   attempts    the append_row calls made.                                *)
(***************************************************************************)
Str_summary == <<"s", "u", "m", "m", "a", "r", "y">>
Str_today   == <<"t", "o", "d", "a", "y">>
Str_week    == <<"w", "e", "e", "k">>
Str_month   == <<"m", "o", "n", "t", "h">>
Str_help    == <<"h", "e", "l", "p">>

NoCls == [raised |-> FALSE, text |-> <<>>]

Outcome(kind, body, cls, sheet) ==
    [kind |-> kind, body |-> body, cls |-> cls, sheet |-> sheet,
     description |-> <<>>, amount |-> Zero, category |-> <<>>,
     results |-> <<>>, total |-> Zero, attempts |-> 0]

\* mutant of Truthy: the amount is only tested against None
TruthyNotNone(p) == p.kind = "Parsed" /\ p.description # <<>>

\* `if description and amount`: neither None, nor '', nor 0.0
Truthy(p) == p.kind = "Parsed" /\ p.description # <<>> /\ p.amount.m # 0

\* the message bodies of the webhook run
Bodies ==
    { Str_summary, Str_today, Str_week, Str_month,
      <<" ", "H", "e", "l", "p", "\n">>,
      <<"a", " ", "5">>,
      <<"2", ".", "5", "0", " ", "b", " ", "c">>,
      <<"a", " ", "0">>,
      <<"a", " ", "1", ".", "2", ".", "3">>,
      <<"h", "e", "l", "l", "o">>,
      <<>> }

\* parse_expense(original_msg) for each body of the run, computed once
ParsedBody == [b \in Bodies |-> parse_expense(strip(b))]

\* the reply of a summary branch, r being what get_summary returned
SummaryOutcome(kind, led, body, sheet, c, r) ==
    [ledger |-> led, now |-> c,
     last |-> [Outcome(kind, body, NoCls, sheet)
                 EXCEPT !.results = r.results, !.total = r.total]]

\* a summary branch: get_summary reads the worksheet and the clock (at c)
SummaryReply(kind, p, led, body, sheet, c) ==
    SummaryOutcome(kind, led, body, sheet, c,
                   get_summary(led, p, [y |-> c.y, m |-> c.m, d |-> c.d], sheet = "ok"))

\* the reply after save_expense returned `saved` for the parsed expense p
SavedOutcome(body, cls, sheet, c0, ts, p, category, saved) ==
    [ledger |-> saved.ledger,
     now    |-> IF sheet = "no_sheet" THEN c0 ELSE ts,
     last   |-> [Outcome(IF saved.success THEN "saved" ELSE "save_error",
                         body, cls, sheet)
                   EXCEPT !.description = p.description,
                          !.amount = p.amount,
                          !.category = category,
                          !.attempts = saved.attempts]]

\* the try block of the else branch, once the expense p has a category;
\* categorize_expense and save_expense catch every Exception themselves, so
\* the handler's own except branch (the "Error: ..." reply) is never taken
SaveAndReply(led, body, cls, sheet, c0, d, ts, p, category) ==
    SavedOutcome(body, cls, sheet, c0, ts, p, category,
                 save_expense(led, p.description, p.amount, category, sheet, d, ts))

\* the else branch on the result p of parse_expense, which is called outside
\* the try block, so that its ValueError leaves the handler
ExpenseOutcome(led, body, cls, sheet, c0, d, ts, p) ==
    IF p.kind = "Raised"
    THEN [ledger |-> led, now |-> c0, last |-> Outcome("fault", body, NoCls, "ok")]
    ELSE IF ~Truthy(p)
    THEN [ledger |-> led, now |-> c0,
          last |-> Outcome("not_understood", body, NoCls, "ok")]
    ELSE SaveAndReply(led, body, cls, sheet, c0, d, ts, p, categorize_expense(cls))

ExpenseReply(led, body, cls, sheet, c0, d, ts) ==
    ExpenseOutcome(led, body, cls, sheet, c0, d, ts, ParsedBody[body])

\* the branch the handler takes on the lower-cased, stripped body
Dispatch(incoming_msg, led, body, cls, sheet, c0, d, ts) ==
    CASE incoming_msg \in {Str_summary, Str_today} ->
           SummaryReply("today", "today", led, body, sheet, d)
      [] incoming_msg = Str_week ->
           SummaryReply("week", "week", led, body, sheet, d)
      [] incoming_msg = Str_month ->
           SummaryReply("month", "month", led, body, sheet, d)
      [] incoming_msg = Str_help ->
           [ledger |-> led, now |-> c0, last |-> Outcome("help", body, NoCls, "ok")]
      [] OTHER ->
           ExpenseReply(led, body, cls, sheet, c0, d, ts)

\* the handler on message `body`, with the clock at c0 when it starts, at d
\* for the first read it makes and at ts for the second
webhook(led, body, cls, sheet, c0, d, ts) ==
    Dispatch(lower(strip(body)), led, body, cls, sheet, c0, d, ts)

(***************************************************************************)
(* Webhook run: messages arrive one at a time; the classifier and the      *)
(* worksheet answer each call as they please; the clock never goes back.   *)
(***************************************************************************)
ClassifierAnswers ==
    { [raised |-> TRUE, text |-> <<>>],
      [raised |-> FALSE, text |-> Food],
      [raised |-> FALSE, text |-> <<" ", "X", "\n">>],
      [raised |-> FALSE, text |-> <<" ">>] }

SheetAnswers == {"ok", "no_sheet", "append_raises"}

StartClock == [y |-> 2024, m |-> 2, d |-> 29, s |-> 86399]

Init ==
    /\ ledger = <<>>
    /\ now = StartClock
    /\ last = Outcome("idle", <<>>, NoCls, "ok")
    /\ handled = 0
    /\ IdleParse /\ IdleSummary

\* which inputs the handler reads on message `body`: the classifier and the
\* second clock read only when an expense is saved, the worksheet and the
\* first clock read also for a summary
Route(body) ==
    LET incoming_msg == lower(strip(body))
    IN  IF incoming_msg \in {Str_summary, Str_today, Str_week, Str_month}
        THEN "summary"
        ELSE IF incoming_msg = Str_help THEN "help"
        ELSE IF Truthy(ParsedBody[body]) THEN "expense"
        ELSE "rejected"

SummaryBodies  == {b \in Bodies : Route(b) = "summary"}
HelpBodies     == {b \in Bodies : Route(b) = "help"}
ExpenseBodies  == {b \in Bodies : Route(b) = "expense"}
RejectedBodies == {b \in Bodies : Route(b) = "rejected"}

\* the handler runs on one message, from the clock's `now`; it makes its
\* first clock read t1 seconds later and its second t2 seconds after that
Handle(body, cls, sheet, t1, t2) ==
    \E out \in {webhook(ledger, body, cls, sheet, now,
                        ClockAfter(now, t1), ClockAfter(now, t1 + t2))} :
       /\ ledger' = out.ledger
       /\ now' = out.now
       /\ last' = out.last

WebhookSummary ==
    /\ handled < MaxMsgs
    /\ \E body \in SummaryBodies, sheet \in SheetAnswers, t1 \in 0..MaxTicks :
          Handle(body, NoCls, sheet, t1, 0)
    /\ handled' = handled + 1
    /\ UNCHANGED <<parseVars, summaryVars>>

WebhookHelp ==
    /\ handled < MaxMsgs
    /\ \E body \in HelpBodies : Handle(body, NoCls, "ok", 0, 0)
    /\ handled' = handled + 1
    /\ UNCHANGED <<parseVars, summaryVars>>

WebhookExpense ==
    /\ handled < MaxMsgs
    /\ \E body \in ExpenseBodies, cls \in ClassifierAnswers, sheet \in SheetAnswers,
          t1 \in 0..MaxTicks, t2 \in 0..MaxTicks :
          /\ sheet = "no_sheet" => t1 = 0 /\ t2 = 0
          /\ Handle(body, cls, sheet, t1, t2)
    /\ handled' = handled + 1
    /\ UNCHANGED <<parseVars, summaryVars>>

WebhookRejected ==
    /\ handled < MaxMsgs
    /\ \E body \in RejectedBodies : Handle(body, NoCls, "ok", 0, 0)
    /\ handled' = handled + 1
    /\ UNCHANGED <<parseVars, summaryVars>>

Next == WebhookSummary \/ WebhookHelp \/ WebhookExpense \/ WebhookRejected

Spec == Init /\ [][Next]_vars

(***************************************************************************)
(* Properties of parse_expense, checked under SpecParse.                   *)
(***************************************************************************)
\* text[c..d] is a decimal token: digits with at most one decimal point
DecimalToken(s, c, d) ==
    /\ c <= d
    /\ \A i \in c..d : s[i] \in DigitChars \cup {"."}
    /\ Cardinality({i \in c..d : s[i] = "."}) <= 1
    /\ \E i \in c..d : s[i] \in DigitChars

\* the decimal v = m / 10^e is the number the token tok spells
NumericallyEqual(v, tok) ==
    LET dots   == {i \in 1..Len(tok) : tok[i] = "."}
        frac   == IF dots = {} THEN 0 ELSE Len(tok) - Max(dots)
        digits == SelectSeq(tok, LAMBDA ch : ch \in DigitChars)
    IN  v.m * Pow10(frac) = IntOfDigits(digits) * Pow10(v.e)

\* text is whitespace, description text[a..b], whitespace, amount
\* text[c..d], whitespace, as the well-formed inputs are
WellFormedAt(s, a, b, c, d) ==
    /\ 1 <= a /\ a <= b /\ b + 1 < c /\ c <= d /\ d <= Len(s)
    /\ \A i \in 1..(a - 1) : IsSpace(s[i])
    /\ \A i \in (d + 1)..Len(s) : IsSpace(s[i])
    /\ ~IsSpace(s[a]) /\ ~IsSpace(s[b])
    /\ \A i \in a..b : s[i] # "\n"
    /\ \A i \in (b + 1)..(c - 1) : IsSpace(s[i])
    /\ DecimalToken(s, c, d)
    /\ \E i \in c..d : s[i] \in DigitChars \ {"0"}

\* C1: for a text <description><whitespace><amount>, possibly with whitespace
\* around it, where the description is non-empty, starts and ends with a
\* non-whitespace character and holds no newline, and the amount is a
\* positive decimal token, parse_expense returns Parsed with exactly that
\* description and an amount numerically equal to the token.
C1_WellFormedParsed ==
    ppc = "done" =>
        \A a \in 1..Len(text), b \in 1..Len(text), c \in 1..Len(text), d \in 1..Len(text) :
            WellFormedAt(text, a, b, c, d) =>
                /\ parsed.kind = "Parsed"
                /\ parsed.description = SubSeq(text, a, b)
                /\ NumericallyEqual(parsed.amount, SubSeq(text, c, d))

\* a well-formed text with whitespace before it and a decimal point in the
\* amount has been parsed
C1_Witness ==
    /\ ppc = "done"
    /\ parsed.kind = "Parsed"
    /\ \E a \in 2..Len(text), b \in 1..Len(text), c \in 1..Len(text), d \in 1..Len(text) :
          /\ WellFormedAt(text, a, b, c, d)
          /\ \E i \in c..d : text[i] = "."

\* C2: parse_expense is total: on every text it returns Parsed or Failed and
\* never raises; a numeric token that does not parse as a decimal ("1.2.3",
\* ".") gives Failed.
C2_Total ==
    ppc = "done" => parsed.kind \in {"Parsed", "Failed"}

\* the stripped text s ends with a decimal token s[c..] that follows
\* whitespace, with something before that whitespace
TrailingFormAt(s, c) ==
    /\ 2 <= c
    /\ IsSpace(s[c - 1])
    /\ DecimalToken(s, c, Len(s))
    /\ strip(SubSeq(s, 1, c - 1)) # <<>>

\* the stripped text s begins with a decimal token s[..m], then whitespace,
\* then a non-empty remainder
LeadingFormAt(s, m) ==
    /\ m + 1 <= Len(s)
    /\ DecimalToken(s, 1, m)
    /\ IsSpace(s[m + 1])
    /\ strip(SubSeq(s, m + 1, Len(s))) # <<>>

\* C8: when a text matches both the trailing-amount and the leading-amount
\* form, parse_expense returns the trailing-amount reading: the amount is the
\* last numeric token and the description is everything before it, trimmed.
C8_TrailingWins ==
    ppc = "done" =>
        LET s == strip(text)
        IN  \A c \in 1..Len(s), m \in 1..Len(s) :
                TrailingFormAt(s, c) /\ LeadingFormAt(s, m) =>
                    /\ parsed.kind = "Parsed"
                    /\ parsed.description = strip(SubSeq(s, 1, c - 1))
                    /\ NumericallyEqual(parsed.amount, SubSeq(s, c, Len(s)))

(***************************************************************************)
(* Properties of get_summary, checked under SpecSummary.                   *)
(***************************************************************************)
\* the calendar day after [y, m, d]
NextDay(c) ==
    IF c.d < DaysInMonth(c.y, c.m) THEN [c EXCEPT !.d = c.d + 1]
    ELSE IF c.m < 12 THEN [c EXCEPT !.m = c.m + 1, !.d = 1]
    ELSE [y |-> c.y + 1, m |-> 1, d |-> 1]

Before(a, b) ==
    \/ a.y < b.y
    \/ a.y = b.y /\ a.m < b.m
    \/ a.y = b.y /\ a.m = b.m /\ a.d < b.d

\* the number of days from calendar date a forwards to b, counted one day at
\* a time (0 when b is not after a)
RECURSIVE DaysUntil(_, _)
DaysUntil(a, b) == IF ~Before(a, b) THEN 0 ELSE 1 + DaysUntil(NextDay(a), b)

\* (t - r).days for calendar dates r and t
DaysBack(r, t) == IF Before(t, r) THEN 0 - DaysUntil(t, r) ELSE DaysUntil(r, t)

YMD(c) == [y |-> c.y, m |-> c.m, d |-> c.d]

\* the rule of retention as the claim states it, for a row whose date parses
Retains(p, t, r) ==
    \/ p = "today" /\ YMD(r.Date) = t
    \/ p = "week" /\ DaysBack(YMD(r.Date), t) <= 7
    \/ p = "month" /\ DaysBack(YMD(r.Date), t) <= 30

\* C6: get_summary retains a row with a parseable date exactly when the
\* window is today and the row's date is today, or the window is week and
\* today minus the row's date is at most 7 days, or the window is month and
\* that difference is at most 30 days; there is no lower bound, so future
\* rows are retained by week and month, and a row 8 days (week) or 31 days
\* (month) back is excluded.
C6_WindowRule ==
    spc = "done" =>
        /\ filtered = SelectSeq(rows, LAMBDA r : strptime(r.Date).ok /\ Retains(period, today, r))
        /\ \A i \in 1..Len(rows) :
              LET r    == rows[i]
                  kept == \E j \in 1..Len(filtered) : filtered[j] = r
              IN  strptime(r.Date).ok =>
                    /\ period \in {"week", "month"} /\ Before(today, YMD(r.Date)) => kept
                    /\ period = "week" /\ DaysBack(YMD(r.Date), today) = 8 => ~kept
                    /\ period = "month" /\ DaysBack(YMD(r.Date), today) = 31 => ~kept

\* a week summary has kept a row dated in the future and dropped a row dated
\* 8 days back
C6_Witness ==
    /\ spc = "done"
    /\ period = "week"
    /\ \E i \in 1..Len(filtered) : Before(today, YMD(filtered[i].Date))
    /\ \E i \in 1..Len(rows) :
          /\ strptime(rows[i].Date).ok
          /\ DaysBack(YMD(rows[i].Date), today) = 8

\* a row whose date or amount field fails to parse
Malformed(r) == ~strptime(r.Date).ok \/ ~float_cell(r.Amount).ok

\* C7: malformed rows never change a summary: get_summary returns, and its
\* category totals and grand total equal those of the same rows with every
\* row whose date or amount fails to parse removed.
C7_MalformedRowsIgnored ==
    spc = "done" =>
        summary = get_summary(SelectSeq(rows, LAMBDA r : ~Malformed(r)), period, today, TRUE)

\* a summary with a non-zero total was computed from rows of which an
\* earlier one, dated in the window, has an amount that does not parse
C7_Witness ==
    /\ spc = "done"
    /\ summary.total # Zero
    /\ \E i \in 1..Len(rows) :
          /\ strptime(rows[i].Date).ok
          /\ Retains(period, today, rows[i])
          /\ ~float_cell(rows[i].Amount).ok
          /\ \E j \in (i + 1)..Len(rows) : ~Malformed(rows[j]) /\ Retains(period, today, rows[j])

\* the retained rows whose amount parses
Counted == SelectSeq(filtered, LAMBDA r : float_cell(r.Amount).ok)

\* the sum of the amounts of the rows of f, from row i on, of category cat
RECURSIVE SumAmounts(_, _, _)
SumAmounts(f, i, cat) ==
    IF i > Len(f) THEN Zero
    ELSE LET a    == float_cell(f[i].Amount)
             rest == SumAmounts(f, i + 1, cat)
         IN  IF f[i].Category = cat THEN AddVal([m |-> a.m, e |-> a.e], rest) ELSE rest

RECURSIVE SumValues(_, _)
SumValues(res, i) ==
    IF i > Len(res) THEN Zero ELSE AddVal(res[i][2], SumValues(res, i + 1))

C3_CategoryUsable ==
    last.kind \in {"saved", "save_error"} =>
        /\ last.category # <<>>
        /\ IF last.cls.raised \/ strip(last.cls.text) = <<>>
           THEN last.category = Other
           ELSE last.category = strip(last.cls.text)

ReplyTemplates ==
    {"today", "week", "month", "help", "saved", "save_error", "not_understood"}

\* C4: for every message body and every outcome of the classifier and the
\* ledger, the handler completes with exactly one reply from the fixed set
\* of templates; no message ends it in an unhandled fault or with no reply.
C4_AlwaysOneReply ==
    handled > 0 => last.kind \in ReplyTemplates

\* C5: every record appended to the ledger has amount > 0, a description
\* that is non-empty after trimming, and a date not later than the date of
\* its recorded_at timestamp.
C5_RecordInvariant ==
    \A i \in 1..Len(ledger) :
        LET r == ledger[i]
        IN  /\ r.Amount.num /\ r.Amount.val.m > 0
            /\ strip(r.Description) # <<>>
            /\ strptime(r.Date).ok
            /\ ~Before(YMD(r.Timestamp), YMD(r.Date))

\* the ledger holds a record whose two clock reads fell on either side of
\* midnight
C5_Witness ==
    \E i \in 1..Len(ledger) : Before(YMD(ledger[i].Date), YMD(ledger[i].Timestamp))

\* C9: the ledger is append-only: handling a message leaves the stored
\* records unchanged and makes at most one append attempt; summary commands,
\* help and messages that do not parse make none; when the one attempt fails
\* save_expense returns False without raising, nothing is added, and the
\* expense is not retried or queued (a later append carries only the expense
\* of the message then handled).
C9_AppendOnly ==
    [][ /\ Len(ledger') >= Len(ledger)
        /\ Len(ledger') <= Len(ledger) + 1
        /\ SubSeq(ledger', 1, Len(ledger)) = ledger
        /\ last'.attempts <= 1
        /\ last'.kind \in {"today", "week", "month", "help", "not_understood", "fault"} =>
              last'.attempts = 0 /\ ledger' = ledger
        /\ last'.sheet # "ok" /\ Route(last'.body) = "expense" =>
              last'.kind = "save_error" /\ ledger' = ledger
        /\ ledger' # ledger =>
              /\ last'.kind = "saved"
              /\ ledger'[Len(ledger')].Description = last'.description
              /\ ledger'[Len(ledger')].Amount = NumCell(last'.amount)
      ]_vars

\* an append attempt has failed while the ledger already held a record
C9_Witness ==
    /\ last.kind = "save_error"
    /\ last.attempts = 1
    /\ last.sheet = "append_raises"
    /\ Len(ledger) >= 1

====
